---- MODULE Spec2Model ----
(***************************************************************************)
(* Figment pixel colour counter (src/main.py).                             *)
(*                                                                         *)
(* A Python str is a TLA+ string, a tuple or list is a sequence, and an    *)
(* insertion-ordered dict is a sequence of <<key, value>> pairs with       *)
(* pairwise distinct keys.  An RGB colour is a triple <<r, g, b>>.         *)
(***************************************************************************)
EXTENDS Integers, Sequences, FiniteSets, TLC

VARIABLES
    promotion,      \* scalar promotion rule of the installed NumPy
    pairs,          \* the (name, rgb) pairs the palette is written with
    directory,      \* the entries of directory_path, as os.listdir yields them
    target_colors,  \* the palette dict
    pc,             \* position of the script
    file_list,      \* process_directory: the PNG file names
    i,              \* process_directory: index of the next file of file_list
    rows,           \* the rows written to output_csv so far
    calls,          \* history: one record per call of analyze_image_colors
    error           \* the exception that ended the run, or "none"

vars == <<promotion, pairs, directory, target_colors, pc, file_list, i, rows,
          calls, error>>

----------------------------------------------------------------------------
(* Bounds of the model *)

MaxPalette == 3     \* pairs in a palette drawn by InitClassify
MaxPixels == 2      \* pixels in one image
MaxFiles == 3       \* image files in the directory drawn by Init

(* Input domains *)

Names == {"a", "b", "c"}
PaletteRGBs == {<<1, 0, 0>>, <<0, 1, 0>>, <<16, 0, 0>>}
PixelColors == {<<0, 0, 0>>, <<0, 1, 0>>}

\* The palette of the script (webcolors.hex_to_rgb already applied to the
\* hex literals: #ff69b4, #008b8b, #d3d3d3, #005DBA, #ffffff).
ReferencePairs ==
    << <<"hotpink", <<255, 105, 180>> >>,
       <<"darkcyan", <<0, 139, 139>> >>,
       <<"lightgray", <<211, 211, 211>> >>,
       <<"blue", <<0, 93, 186>> >>,
       <<"white", <<255, 255, 255>> >> >>

\* Palettes a caller of process_directory passes in the batch specification.
BatchPairs ==
    { ReferencePairs,
      << >>,
      << <<"white", <<255, 255, 255>> >>, <<"blue", <<0, 93, 186>> >>,
         <<"white", <<0, 0, 0>> >> >>,
      << <<"white", <<255, 255, 255>> >>, <<"hotpink", <<300, 105, 180>> >> >> }
BatchPixelColors == {<<255, 255, 255>>, <<1, 1, 1>>}

SeqsUpTo(S, n) == UNION {[1..m -> S] : m \in 0..n}

----------------------------------------------------------------------------
(* Python values *)

None == "None"      \* Python's None; no palette name of the model equals it

\* dict operations
Keys(d) == [k \in 1..Len(d) |-> d[k][1]]
HasKey(d, key) == \E k \in 1..Len(d) : d[k][1] = key
Get(d, key) == d[CHOOSE k \in 1..Len(d) : d[k][1] = key][2]
GetDefault(d, key, default) == IF HasKey(d, key) THEN Get(d, key) ELSE default
Put(d, key, value) ==
    IF HasKey(d, key)
    THEN [k \in 1..Len(d) |-> IF d[k][1] = key THEN <<key, value>> ELSE d[k]]
    ELSE Append(d, <<key, value>>)

\* a dict display or comprehension: later items overwrite earlier ones
RECURSIVE DictOf(_)
DictOf(items) ==
    IF items = << >> THEN << >>
    ELSE LET n == Len(items)
         IN  Put(DictOf(SubSeq(items, 1, n - 1)), items[n][1], items[n][2])

\* str.lower and str.endswith, on the letters file names of the model use
LowerChar(ch) ==
    CASE ch = "I" -> "i" [] ch = "M" -> "m" [] ch = "G" -> "g"
      [] ch = "P" -> "p" [] ch = "N" -> "n" [] OTHER -> ch
RECURSIVE lower(_)
lower(s) ==
    IF Len(s) = 0 THEN ""
    ELSE lower(SubSeq(s, 1, Len(s) - 1)) \o LowerChar(SubSeq(s, Len(s), Len(s)))
endswith(s, suffix) ==
    /\ Len(s) >= Len(suffix)
    /\ SubSeq(s, Len(s) - Len(suffix) + 1, Len(s)) = suffix

\* "{:.6f}".format(count / total): the quotient rounded to six decimals
Digit(n, k) == ToString((n \div (10 ^ k)) % 10)
Format6(count, total) ==
    LET n == count * 1000000
        q == n \div total
        r == n % total
        m == IF 2 * r > total \/ (2 * r = total /\ q % 2 = 1) THEN q + 1 ELSE q
    IN  ToString(m \div 1000000) \o "." \o Digit(m, 5) \o Digit(m, 4)
          \o Digit(m, 3) \o Digit(m, 2) \o Digit(m, 1) \o Digit(m, 0)

----------------------------------------------------------------------------
(* NumPy scalar arithmetic of get_color_name.  The pixel channels are      *)
(* numpy.uint8 scalars, the palette components Python ints.  NumPy 1.x     *)
(* ("legacy") computes uint8 op int in int64; NumPy 2.x ("nep50") keeps    *)
(* uint8, wraps modulo 2^8 and rejects an int that is no uint8.            *)

Promotions == {"legacy", "nep50"}

IsUInt8(b) == b \in 0..255
Raises(a, b) == promotion = "nep50" /\ ~IsUInt8(b)
Sub(a, b) == IF promotion = "nep50" THEN (a - b) % 256 ELSE a - b
Square(x) == IF promotion = "nep50" THEN (x * x) % 256 ELSE x * x
Add(x, y) == IF promotion = "nep50" THEN (x + y) % 256 ELSE x + y

\* sum([(a - b) ** 2 for a, b in zip(rgb_triplet, target_rgb)])
dist(rgb_triplet, target_rgb) ==
    Add(Add(Add(0, Square(Sub(rgb_triplet[1], target_rgb[1]))),
            Square(Sub(rgb_triplet[2], target_rgb[2]))),
        Square(Sub(rgb_triplet[3], target_rgb[3])))
distRaises(rgb_triplet, target_rgb) ==
    \E k \in 1..3 : Raises(rgb_triplet[k], target_rgb[k])

\* float('inf') and the comparison dist < min_distance
Inf == [inf |-> TRUE, v |-> 0]
Finite(d) == [inf |-> FALSE, v |-> d]
LessThan(d, min_distance) == min_distance.inf \/ d < min_distance.v

\* the loop of get_color_name from palette entry k on
RECURSIVE Scan(_, _, _, _, _)
Scan(rgb_triplet, colors, k, min_distance, closest_color) ==
    IF k > Len(colors) THEN [exc |-> "none", name |-> closest_color]
    ELSE IF distRaises(rgb_triplet, colors[k][2])
    THEN [exc |-> "OverflowError", name |-> None]
    ELSE LET d == dist(rgb_triplet, colors[k][2])
         IN  IF LessThan(d, min_distance)
             THEN Scan(rgb_triplet, colors, k + 1, Finite(d), colors[k][1])
             ELSE Scan(rgb_triplet, colors, k + 1, min_distance, closest_color)

get_color_name(rgb_triplet, colors) == Scan(rgb_triplet, colors, 1, Inf, None)

----------------------------------------------------------------------------
(* analyze_image_colors *)

\* np.unique(rows, axis=0, return_counts=True): the distinct rows in
\* lexicographic order, and how often each occurs
LexLess(c, d) ==
    \/ c[1] < d[1]
    \/ c[1] = d[1] /\ c[2] < d[2]
    \/ c[1] = d[1] /\ c[2] = d[2] /\ c[3] < d[3]
RECURSIVE SortColors(_)
SortColors(S) ==
    IF S = {} THEN << >>
    ELSE LET m == CHOOSE c \in S : \A d \in S \ {c} : LexLess(c, d)
         IN  <<m>> \o SortColors(S \ {m})
np_unique(data) ==
    LET u == SortColors({data[k] : k \in 1..Len(data)})
    IN  [unique |-> u,
         counts |-> [k \in 1..Len(u) |->
                       Cardinality({j \in 1..Len(data) : data[j] = u[k]})]]

\* ZeroCounts with the counters of the previous call left in place
ZeroCountsCarried(colors) ==
    IF calls # << >> /\ calls[Len(calls)].result.exc = "none"
    THEN calls[Len(calls)].result.color_counts
    ELSE DictOf([k \in 1..Len(colors) |-> <<colors[k][1], 0>>])

\* color_counts = {color: 0 for color in target_colors}
ZeroCounts(colors) == DictOf([k \in 1..Len(colors) |-> <<colors[k][1], 0>>])

\* Accumulate with = in place of +=
AccumulateOverwrite(colors, color_counts, color_name, count) ==
    IF HasKey(colors, color_name)
    THEN Put(color_counts, color_name, count)
    ELSE color_counts

\* if color_name in target_colors: color_counts[color_name] += count
Accumulate(colors, color_counts, color_name, count) ==
    IF HasKey(colors, color_name)
    THEN Put(color_counts, color_name, Get(color_counts, color_name) + count)
    ELSE color_counts

\* the loop over zip(unique, counts) from position k on
RECURSIVE CountLoop(_, _, _, _)
CountLoop(u, k, colors, st) ==
    IF k > Len(u.unique) THEN st
    ELSE LET found == get_color_name(u.unique[k], colors)
         IN  IF found.exc # "none" THEN [st EXCEPT !.exc = found.exc]
             ELSE CountLoop(u, k + 1, colors,
                    [exc |-> "none",
                     color_counts |-> Accumulate(colors, st.color_counts,
                                                 found.name, u.counts[k]),
                     total_pixels |-> st.total_pixels + u.counts[k],
                     assigned |-> Append(st.assigned,
                                         <<u.unique[k], found.name>>)])

PercentKey(color) == color \o "_percent"

\* Percentages with the names that have no pixel left out
RECURSIVE PercentagesNonZero(_, _)
PercentagesNonZero(color_counts, total_pixels) ==
    IF color_counts = << >> THEN << >>
    ELSE (IF Head(color_counts)[2] = 0 THEN << >>
          ELSE <<<<PercentKey(Head(color_counts)[1]),
                   Format6(Head(color_counts)[2], total_pixels)>>>>)
           \o PercentagesNonZero(Tail(color_counts), total_pixels)

\* {color + '_percent': "{:.6f}".format(count / total_pixels) for ...}
Percentages(color_counts, total_pixels) ==
    DictOf([k \in 1..Len(color_counts) |->
              <<PercentKey(color_counts[k][1]),
                Format6(color_counts[k][2], total_pixels)>>])

\* The outcome of one call on a directory entry: exc is "none" when the
\* call returns (color_counts, color_percentages), else the exception raised.
Outcome(exc, counts, percentages, total, assigned) ==
    [exc |-> exc, color_counts |-> counts, color_percentages |-> percentages,
     total_pixels |-> total, assigned |-> assigned]

analyze_image_colors(entry, colors) ==
    IF ~entry.decodable
    THEN Outcome("DecodeError", << >>, << >>, 0, << >>)
    ELSE LET st == CountLoop(np_unique(entry.pixels), 1, colors,
                     [exc |-> "none", color_counts |-> ZeroCounts(colors),
                      total_pixels |-> 0, assigned |-> << >>])
         IN  IF st.exc # "none"
             THEN Outcome(st.exc, << >>, << >>, 0, st.assigned)
             ELSE IF st.color_counts # << >> /\ st.total_pixels = 0
             THEN Outcome("ZeroDivisionError", << >>, << >>, 0, st.assigned)
             ELSE Outcome("none", st.color_counts,
                          Percentages(st.color_counts, st.total_pixels),
                          st.total_pixels, st.assigned)

----------------------------------------------------------------------------
(* The directory and the script *)

FileName(k) == "img" \o ToString(k) \o (IF k % 2 = 0 THEN ".PNG" ELSE ".png")

\* What Image.open(...).convert('RGB') finds in a file: an undecodable file,
\* or the pixels of the grid row by row (data.reshape(-1, 3)).
Contents(colors) ==
    {[decodable |-> TRUE, pixels |-> p] : p \in SeqsUpTo(colors, MaxPixels)}
      \cup {[decodable |-> FALSE, pixels |-> << >>]}

\* A directory holding the images cs and one file that is no PNG.
DirectoryOf(cs) ==
    [k \in 1..Len(cs) |-> [filename |-> FileName(k),
                           decodable |-> cs[k].decodable,
                           pixels |-> cs[k].pixels]]
      \o <<[filename |-> "notes.txt", decodable |-> FALSE, pixels |-> << >>]>>

RECURSIVE PngFiles(_)
PngFiles(entries) ==
    IF entries = << >> THEN << >>
    ELSE LET f == Head(entries).filename
         IN  (IF endswith(lower(f), ".png") THEN <<f>> ELSE << >>)
               \o PngFiles(Tail(entries))

EntryAt(filename) ==
    directory[CHOOSE k \in 1..Len(directory) : directory[k].filename = filename]

headers ==
    <<"Filename">>
      \o [k \in 1..Len(target_colors) |-> PercentKey(target_colors[k][1])]
      \o Keys(target_colors)

\* PercentCell looking the percentage up under the bare colour name
PercentCellByColor(color_percentages, color) ==
    GetDefault(color_percentages, color, "0.00")

PercentCell(color_percentages, color) ==
    GetDefault(color_percentages, PercentKey(color), "0.00")
CountCell(color_counts, color) == ToString(GetDefault(color_counts, color, 0))

\* the row of one image, as csv.writer writes it
RowOf(filename, result) ==
    <<filename>>
      \o [k \in 1..Len(target_colors) |->
            PercentCell(result.color_percentages, target_colors[k][1])]
      \o [k \in 1..Len(target_colors) |->
            CountCell(result.color_counts, target_colors[k][1])]

CallOf(filename, result) ==
    [filename |-> filename, entry |-> EntryAt(filename), result |-> result]

TypeOK ==
    /\ promotion \in Promotions
    /\ pc \in {"config", "main", "loop", "failed", "done"}
    /\ i \in 0..(Len(file_list) + 1)
    /\ error \in {"none", "DecodeError", "OverflowError", "ZeroDivisionError"}

\* Before the script runs: nothing is built, nothing is written.
Start ==
    /\ promotion \in Promotions
    /\ target_colors = << >>
    /\ pc = "config"
    /\ file_list = << >>
    /\ i = 0
    /\ rows = << >>
    /\ calls = << >>
    /\ error = "none"

\* A batch: a caller's palette and up to MaxFiles images.
Init ==
    /\ Start
    /\ pairs \in BatchPairs
    /\ directory \in {DirectoryOf(cs) :
                        cs \in SeqsUpTo(Contents(BatchPixelColors), MaxFiles)}

\* One classification: any palette of up to MaxPalette pairs, at most one image.
InitClassify ==
    /\ Start
    /\ pairs \in SeqsUpTo(Names \X PaletteRGBs, MaxPalette)
    /\ directory \in {DirectoryOf(cs) :
                        cs \in SeqsUpTo(Contents(PixelColors), 1)}

\* target_colors = {...}
BuildPalette ==
    /\ pc = "config"
    /\ target_colors' = DictOf(pairs)
    /\ pc' = "main"
    /\ UNCHANGED <<promotion, pairs, directory, file_list, i, rows, calls, error>>

\* process_directory up to the loop: list the PNG files, write the header
OpenCsv ==
    /\ pc = "main"
    /\ file_list' = PngFiles(directory)
    /\ rows' = <<headers>>
    /\ i' = 1
    /\ pc' = "loop"
    /\ UNCHANGED <<promotion, pairs, directory, target_colors, calls, error>>

\* ProcessImage skipping an image that fails and going on with the next
ProcessImageSkip ==
    /\ pc = "loop"
    /\ i <= Len(file_list)
    /\ LET filename == file_list[i]
           result == analyze_image_colors(EntryAt(filename), target_colors)
       IN  /\ calls' = Append(calls, CallOf(filename, result))
           /\ rows' = IF result.exc = "none"
                      THEN Append(rows, RowOf(filename, result)) ELSE rows
           /\ i' = i + 1
           /\ UNCHANGED <<pc, error>>
    /\ UNCHANGED <<promotion, pairs, directory, target_colors, file_list>>

\* one iteration of the loop of process_directory
ProcessImage ==
    /\ pc = "loop"
    /\ i <= Len(file_list)
    /\ LET filename == file_list[i]
           result == analyze_image_colors(EntryAt(filename), target_colors)
       IN  /\ calls' = Append(calls, CallOf(filename, result))
           /\ \/ /\ result.exc = "none"
                 /\ rows' = Append(rows, RowOf(filename, result))
                 /\ i' = i + 1
                 /\ UNCHANGED <<pc, error>>
              \/ /\ result.exc # "none"
                 /\ error' = result.exc
                 /\ pc' = "failed"
                 /\ UNCHANGED <<rows, i>>
    /\ UNCHANGED <<promotion, pairs, directory, target_colors, file_list>>

\* the loop is exhausted: the file is closed and the script ends
Finish ==
    /\ pc = "loop"
    /\ i > Len(file_list)
    /\ pc' = "done"
    /\ UNCHANGED <<promotion, pairs, directory, target_colors, file_list, i,
                   rows, calls, error>>

Next == BuildPalette \/ OpenCsv \/ ProcessImage \/ Finish

Spec == Init /\ [][Next]_vars
SpecClassify == InitClassify /\ [][Next]_vars

----------------------------------------------------------------------------
(* Properties *)

Returned == {k \in 1..Len(calls) : calls[k].result.exc = "none"}
Decoded == {k \in 1..Len(calls) : calls[k].entry.decodable}

RECURSIVE SumValues(_)
SumValues(d) == IF d = << >> THEN 0 ELSE Head(d)[2] + SumValues(Tail(d))

\* (c.r-p.r)^2 + (c.g-p.g)^2 + (c.b-p.b)^2 over the integers
ExactDist(c, p) ==
    (c[1] - p[1]) * (c[1] - p[1]) + (c[2] - p[2]) * (c[2] - p[2])
      + (c[3] - p[3]) * (c[3] - p[3])
Nearest(c) ==
    {k \in 1..Len(target_colors) :
       \A m \in 1..Len(target_colors) :
          ExactDist(c, target_colors[k][2]) <= ExactDist(c, target_colors[m][2])}
First(S) == CHOOSE k \in S : \A m \in S : k <= m

Digits == {"0", "1", "2", "3", "4", "5", "6", "7", "8", "9"}
IsFixed6(s) ==
    /\ Len(s) = 8
    /\ SubSeq(s, 2, 2) = "."
    /\ \A j \in {1, 3, 4, 5, 6, 7, 8} : SubSeq(s, j, j) \in Digits

\* C1: whenever analyze_image_colors returns for a non-empty palette and a
\* non-empty grid, the counts sum to the number of pixels of the grid.
CountsSumToPixels ==
    \A k \in Returned :
       (target_colors # << >> /\ calls[k].entry.pixels # << >>)
          => SumValues(calls[k].result.color_counts) = Len(calls[k].entry.pixels)

\* a returned call that put two distinct colours of a two-pixel grid under
\* the same name of a palette of several names
CountsSumToPixelsWitness ==
    \E k \in Returned :
       /\ Len(target_colors) >= 2
       /\ Len(calls[k].result.assigned) = 2
       /\ calls[k].result.assigned[1][2] = calls[k].result.assigned[2][2]

\* C2: for every colour of a returned call on a non-empty palette, the entry
\* get_color_name chose is at minimal exact integer distance from the colour.
SelectionMinimisesExactDistance ==
    \A k \in Returned :
       \A j \in 1..Len(calls[k].result.assigned) :
          LET c == calls[k].result.assigned[j][1]
              name == calls[k].result.assigned[j][2]
          IN  target_colors # << >>
                => /\ HasKey(target_colors, name)
                   /\ \A m \in 1..Len(target_colors) :
                         ExactDist(c, Get(target_colors, name))
                           <= ExactDist(c, target_colors[m][2])

\* C3: a colour at minimal exact distance from two or more palette entries
\* is assigned to the first declared of them.
TieGoesToFirstDeclared ==
    \A k \in Returned :
       \A j \in 1..Len(calls[k].result.assigned) :
          LET c == calls[k].result.assigned[j][1]
              name == calls[k].result.assigned[j][2]
          IN  Cardinality(Nearest(c)) >= 2
                => name = target_colors[First(Nearest(c))][1]

\* C4: a call with an empty palette on a decoded grid fails with EmptyPalette.
EmptyPaletteRaises ==
    \A k \in Decoded :
       target_colors = << >> => calls[k].result.exc = "EmptyPalette"

\* C5: a call with a non-empty palette on a grid of zero pixels fails with
\* EmptyImage.
EmptyImageRaises ==
    \A k \in Decoded :
       (target_colors # << >> /\ calls[k].entry.pixels = << >>)
          => calls[k].result.exc = "EmptyImage"

\* C6 as stated: counts and percentages of every returned call are both keyed
\* by exactly the palette's names, in palette order, with non-negative values.
ResultKeysArePaletteNames ==
    \A k \in Returned :
       /\ Keys(calls[k].result.color_counts) = Keys(target_colors)
       /\ Keys(calls[k].result.color_percentages) = Keys(target_colors)
       /\ \A j \in 1..Len(target_colors) :
             /\ calls[k].result.color_counts[j][2] >= 0
             /\ IsFixed6(calls[k].result.color_percentages[j][2])

\* C6 amended: counts is keyed by exactly the palette's names and percentages
\* by the palette's names each followed by "_percent", both in palette order;
\* every count is a non-negative integer and every percentage a non-negative
\* fraction written with six decimals.
ResultKeysFollowPalette ==
    \A k \in Returned :
       /\ Keys(calls[k].result.color_counts) = Keys(target_colors)
       /\ Keys(calls[k].result.color_percentages)
            = [j \in 1..Len(target_colors) |-> target_colors[j][1] \o "_percent"]
       /\ \A j \in 1..Len(target_colors) :
             /\ calls[k].result.color_counts[j][2] >= 0
             /\ IsFixed6(calls[k].result.color_percentages[j][2])

\* a returned call on a palette of three names, one of them without pixels
ResultKeysFollowPaletteWitness ==
    \E k \in Returned :
       /\ Len(target_colors) = 3
       /\ calls[k].entry.pixels # << >>
       /\ \E j \in 1..3 : calls[k].result.color_counts[j][2] = 0

\* C7: once process_directory has completed, the table is the header row and
\* one row per image file, in order; every row holds the file name, then under
\* each <name>_percent header that image's percentage as a six-decimal string
\* (never the "0.00" placeholder), then under each <name> header its count.
TableShape ==
    pc = "done" =>
       LET P == Len(target_colors)
       IN  /\ Len(file_list) = Len(directory) - 1
           /\ Len(rows) = 1 + Len(file_list)
           /\ rows[1] = <<"Filename">>
                 \o [j \in 1..P |-> target_colors[j][1] \o "_percent"]
                 \o [j \in 1..P |-> target_colors[j][1]]
           /\ \A k \in 1..Len(file_list) :
                 /\ Len(rows[k + 1]) = 1 + 2 * P
                 /\ rows[k + 1][1] = file_list[k]
                 /\ calls[k].filename = file_list[k]
                 /\ \A j \in 1..P :
                       /\ IsFixed6(rows[k + 1][1 + j])
                       /\ rows[k + 1][1 + j] # "0.00"
                       /\ rows[k + 1][1 + j]
                            = Get(calls[k].result.color_percentages,
                                  rows[1][1 + j])
                       /\ rows[k + 1][1 + P + j]
                            = ToString(Get(calls[k].result.color_counts,
                                           rows[1][1 + P + j]))

\* a completed run over two images or more and a palette of several names,
\* with a row that splits its pixels evenly
TableShapeWitness ==
    /\ pc = "done"
    /\ Len(rows) >= 3
    /\ Len(target_colors) >= 2
    /\ \E k \in 2..Len(rows) : \E j \in 2..Len(rows[k]) : rows[k][j] = "0.500000"

\* C8: a palette written with a repeated name or with a component outside
\* 0..255 is refused with InvalidPalette: no palette is built and no image is
\* classified with it.
InvalidPairs ==
    \/ \E j, k \in 1..Len(pairs) : j # k /\ pairs[j][1] = pairs[k][1]
    \/ \E j \in 1..Len(pairs) : \E n \in 1..3 : pairs[j][2][n] \notin 0..255
InvalidPaletteRejected ==
    InvalidPairs =>
       /\ target_colors = << >>
       /\ calls = << >>
       /\ pc \in {"config", "failed"}
       /\ pc = "failed" => error = "InvalidPalette"

\* C9: two returned calls on the same pixels have the same counts, whatever
\* calls were made before or between them, and the palette stays as built.
ClassifyIsPure ==
    /\ \A j, k \in Returned :
          calls[j].entry.pixels = calls[k].entry.pixels
             => calls[j].result.color_counts = calls[k].result.color_counts
    /\ pc # "config" => target_colors = DictOf(pairs)

\* two returned calls on the same non-empty grid with a returned call on
\* another non-empty grid between them, on a palette of several names
ClassifyIsPureWitness ==
    \E j, m, k \in Returned :
       /\ j < m /\ m < k
       /\ Len(target_colors) >= 2
       /\ calls[j].entry.pixels = calls[k].entry.pixels
       /\ calls[j].entry.pixels # << >>
       /\ calls[m].entry.pixels # << >>
       /\ calls[m].entry.pixels # calls[j].entry.pixels

\* C10: a call that fails is the last call of the run: the run has ended with
\* that exception, the table is the header and the rows of the images before
\* it, and neither that image nor a later one has a row.
FailureEndsRun ==
    \A k \in 1..Len(calls) :
       calls[k].result.exc # "none" =>
          /\ k = Len(calls)
          /\ pc = "failed"
          /\ error = calls[k].result.exc
          /\ calls[k].filename = file_list[k]
          /\ Len(rows) = k
          /\ rows[1] = headers
          /\ \A j \in 1..(k - 1) :
                /\ calls[j].filename = file_list[j]
                /\ rows[j + 1] = RowOf(calls[j].filename, calls[j].result)

\* a run that failed on its second image or later, with an image left over
FailureEndsRunWitness ==
    /\ pc = "failed"
    /\ Len(calls) >= 2
    /\ Len(calls) < Len(file_list)
    /\ Len(rows) = Len(calls)

====
